---------------------------- MODULE Spec2Model ----------------------------
(***************************************************************************)
(* Model of game/chat.go: the chat message / channel store.                *)
(*                                                                         *)
(* A Go string is modelled as a sequence of tokens: a token is either the  *)
(* separator "," or a comma-free word (a nation name, a decimal number,    *)
(* ":").  The empty nation "" contributes no token.  A Channel key is the  *)
(* token sequence of its string ID; a Message key is its parent key and    *)
(* its integer ID.  The Body of a message is carried through unread and is *)
(* left out.  Store failures are inputs of the steps that call the store.  *)
(***************************************************************************)
EXTENDS Integers, Sequences, FiniteSets, TLC

\* ---------------------------------------------------------------- bounds
MaxTime == 1        \* the clock (time.Now) takes the values 0..MaxTime
MaxMsgs == 2        \* Message records stored plus createMessage calls in flight
MaxMembers == 2     \* longest member sequence a request carries

\* ------------------------------------------------- external collaborators
\* Attempts datastore.RunInTransaction makes before it gives up with
\* ErrConcurrentTransaction (TransactionOptions.Attempts is left at its default).
MaxAttempts == 3

\* The variant registry (variants.Variants[v].Nations): the roster of the
\* variant the games are played with, in registry order (not sorted).
VariantNations == <<"France", "England">>

\* Existing games (the IntIDs of their keys); 0 stands for a nil or zero key.
Games == {1, 2}

\* Nation values a request can carry: the roster, a nation of another
\* variant, and the empty nation.
NationUniverse == {"", "England", "France", "Germany"}

\* The nation of the requester's Member entity in the game (Member.Nation);
\* "" when the requester has no Member entity there.
Roles == {"", "England", "France"}

\* Go's string order on the nation values.
Rank(n) == CASE n = "" -> 0 [] n = "England" -> 1 [] n = "France" -> 2 [] n = "Germany" -> 3

\* --------------------------------------------------------------- Nations
RECURSIVE SeqToSet(_)
SeqToSet(s) == IF s = <<>> THEN {} ELSE {Head(s)} \cup SeqToSet(Tail(s))

\* Nations.Includes
Includes(n, m) == \E i \in 1..Len(n) : n[i] = m

\* Nations.Less
Less(a, b) == Rank(a) < Rank(b)

RECURSIVE Insert(_, _)
Insert(x, s) ==
  IF s = <<>> THEN <<x>>
  ELSE IF Less(Head(s), x) THEN <<Head(s)>> \o Insert(x, Tail(s))
  ELSE <<x>> \o s

\* sort.Sort(Nations)
RECURSIVE Sort(_)
Sort(n) == IF n = <<>> THEN <<>> ELSE Insert(Head(n), Sort(Tail(n)))

\* the tokens of one nation name
Word(n) == IF n = "" THEN <<>> ELSE <<n>>

\* Nations.String: strings.Join(slice, ",")
RECURSIVE String(_)
String(n) ==
  IF n = <<>> THEN <<>>
  ELSE IF Len(n) = 1 THEN Word(n[1])
  ELSE Word(n[1]) \o <<",">> \o String(Tail(n))

\* the nation value of a comma-free token sequence
Unword(t) == IF t = <<>> THEN "" ELSE t[1]

\* Nations.FromString: strings.Split(s, ",")
RECURSIVE SplitFrom(_, _)
SplitFrom(s, cur) ==
  IF s = <<>> THEN <<Unword(cur)>>
  ELSE IF Head(s) = "," THEN <<Unword(cur)>> \o SplitFrom(Tail(s), <<>>)
  ELSE SplitFrom(Tail(s), cur \o <<Head(s)>>)

FromString(s) == SplitFrom(s, <<>>)

\* ------------------------------------------------------------------ keys
\* fmt.Sprintf("%d", id)
IntStr(id) == CASE id = 0 -> "0" [] id = 1 -> "1" [] id = 2 -> "2" [] OTHER -> "n"

NilKey == <<>>

\* ChannelID: the key of kind Channel with string ID "<gameID>:<members>",
\* NilKey when it returns an error.
ChannelID(gameID, members) ==
  IF gameID = 0 \/ Len(members) < 2 THEN NilKey
  ELSE <<IntStr(gameID), ":">> \o String(members)

\* -------------------------------------------------------------- the state
VARIABLES
  channels,   \* Channel entities: key -> [GameID, Members, NMessages]
  messages,   \* Message entities: records with their parent key and ID
  now,        \* time.Now()
  writer,     \* the createMessage requests in flight
  created,    \* key -> number of createMessage calls on it that returned the message
  resp,       \* the last response of createMessage or listMessages, with its request
  lister,     \* the listChannels request: its position, its tasks and its response
  poller      \* a client that lists a channel's messages, then lists them since
              \* the newest it has

vars == <<channels, messages, now, writer, created, resp, lister, poller>>

\* Channel{} (the zero value)
ZeroChannel == [GameID |-> 0, Members |-> <<>>, NMessages |-> 0]

NoMessage == [GameID |-> 0, ChannelMembers |-> <<>>, Sender |-> "", CreatedAt |-> 0]
NoTx == [seen |-> 0, channel |-> ZeroChannel, getErr |-> FALSE]
NoResp == [op |-> "none", status |-> "none"]

\* NMessagesSince{} (the zero value; <<>> is the zero time)
ZeroSince == [Since |-> <<>>, NMessages |-> 0]

IdleLister ==
  [pc |-> "idle", gameID |-> 0, nation |-> "", since |-> <<>>, channels |-> <<>>,
   tasks |-> <<>>, errs |-> <<>>, merr |-> <<>>, status |-> "none", content |-> <<>>]

IdlePoller ==
  [pc |-> "idle", gameID |-> 0, nation |-> "", members |-> <<>>, first |-> <<>>,
   second |-> <<>>]

IdleWriter == [pc |-> "idle", msg |-> NoMessage, key |-> NilKey, attempt |-> 0, tx |-> NoTx]

Writers == 1..MaxMsgs

\* the Message entities whose ancestor is the key k
Children(k) == {m \in messages : m.parent = k}

\* a store in which every channel is in one entity group
VersionOfStore(k) == Cardinality(messages)

\* The entity group of a channel key changes exactly when a transaction on it
\* commits, and each commit adds one Message: the number of children is the
\* group's version.
Version(k) == Cardinality(Children(k))

InFlight == Cardinality({w \in Writers : writer[w].pc # "idle"})

\* member sequences a request can carry
MemberSeqs == UNION {[1..n -> NationUniverse] : n \in 0..MaxMembers}

Init ==
  /\ channels = [k \in {} |-> ZeroChannel]
  /\ messages = {}
  /\ now = 0
  /\ writer = [w \in Writers |-> IdleWriter]
  /\ created = [k \in {} |-> 0]
  /\ resp = NoResp
  /\ lister = IdleLister
  /\ poller = IdlePoller

\* the clock advances
Tick ==
  /\ now < MaxTime
  /\ now' = now + 1
  /\ UNCHANGED <<channels, messages, writer, created, resp, lister, poller>>

\* ------------------------------------------------------------ write path
\* createMessage returns: the request is over, the response is recorded
Reply(w, status) ==
  /\ writer' = [writer EXCEPT ![w] = IdleWriter]
  /\ resp' = [op |-> "createMessage", status |-> status]

\* a validation that accepts every destination
AnyMembers(members) == TRUE

\* lines 219-224: every member of the destination is a nation of the variant
KnownMembers(members) ==
  \A i \in 1..Len(members) : Includes(VariantNations, members[i])

\* a createMessage that stores the channel before it validates the destination
CreateMessagePutFirst(w) ==
  /\ writer[w].pc = "idle"
  /\ Cardinality(messages) + InFlight < MaxMsgs
  /\ \E gameID \in Games, nation \in Roles, members \in MemberSeqs :
       LET sorted == Sort(members)
           message == [GameID |-> gameID, ChannelMembers |-> sorted,
                       Sender |-> nation, CreatedAt |-> now]
           channelID == <<IntStr(gameID), ":">> \o String(sorted)
           put == [c \in DOMAIN channels \cup {channelID} |->
                     IF c \in DOMAIN channels THEN channels[c]
                     ELSE [GameID |-> gameID, Members |-> sorted, NMessages |-> 0]]
       IN  IF nation = "" THEN Reply(w, "errGetMulti") /\ UNCHANGED channels
           ELSE IF ~Includes(sorted, nation) THEN Reply(w, "403") /\ channels' = put
           ELSE IF ~KnownMembers(sorted) THEN Reply(w, "400") /\ channels' = put
           ELSE IF ChannelID(gameID, sorted) = NilKey
           THEN Reply(w, "errChannelID") /\ UNCHANGED channels
           ELSE /\ writer' = [writer EXCEPT ![w] =
                     [pc |-> "get", msg |-> message, key |-> channelID, attempt |-> 1,
                      tx |-> NoTx]]
                /\ UNCHANGED <<resp, channels>>
  /\ UNCHANGED <<messages, now, created, lister, poller>>

\* createMessage up to the transaction (lines 179-229): the requester's
\* Member entity is loaded (nation = "" stands for GetMulti failing), the
\* message is built and its destination validated, the channel key derived.
CreateMessage(w) ==
  /\ writer[w].pc = "idle"
  /\ Cardinality(messages) + InFlight < MaxMsgs
  /\ \E gameID \in Games, nation \in Roles, members \in MemberSeqs :
       LET sorted == Sort(members)
           message == [GameID |-> gameID, ChannelMembers |-> sorted,
                       Sender |-> nation, CreatedAt |-> now]
           channelID == ChannelID(gameID, sorted)
       IN  IF nation = "" THEN Reply(w, "errGetMulti")
           ELSE IF ~Includes(sorted, nation) THEN Reply(w, "403")
           ELSE IF ~KnownMembers(sorted) THEN Reply(w, "400")
           ELSE IF channelID = NilKey THEN Reply(w, "errChannelID")
           ELSE /\ writer' = [writer EXCEPT ![w] =
                     [pc |-> "get", msg |-> message, key |-> channelID, attempt |-> 1,
                      tx |-> NoTx]]
                /\ UNCHANGED resp
  /\ UNCHANGED <<channels, messages, now, created, lister, poller>>

\* The first step of the transaction function (lines 232-237): datastore.Get
\* of the channel.  ErrNoSuchEntity initialises the channel; any other error
\* is dropped with the scope of the if statement and leaves the zero Channel.
TxGet(w) ==
  /\ writer[w].pc = "get"
  /\ \E getErr \in BOOLEAN :
       LET k == writer[w].key
           m == writer[w].msg
           channel ==
             IF getErr THEN ZeroChannel
             ELSE IF k \in DOMAIN channels THEN channels[k]
             ELSE [GameID |-> m.GameID, Members |-> m.ChannelMembers, NMessages |-> 0]
       IN  writer' = [writer EXCEPT ![w].pc = "commit",
                        ![w].tx = [seen |-> Version(k), channel |-> channel, getErr |-> getErr]]
  /\ UNCHANGED <<channels, messages, now, created, resp, lister, poller>>

\* line 241
Increment(n) == n + 1

\* The rest of the transaction function and the commit (lines 238-246): the
\* two Puts are buffered and the commit applies both or neither.  A failed Put
\* or commit returns its error; a commit that finds the entity group changed
\* since the Get is retried until MaxAttempts.
TxCommit(w) ==
  /\ writer[w].pc = "commit"
  /\ LET k == writer[w].key
         tx == writer[w].tx
     IN \E fault \in {"none", "putMessage", "putChannel", "commit"} :
          IF fault # "none"
          THEN /\ Reply(w, "errTx")
               /\ UNCHANGED <<channels, messages, created>>
          ELSE IF Version(k) # tx.seen
          THEN /\ IF writer[w].attempt < MaxAttempts
                  THEN /\ writer' = [writer EXCEPT ![w].pc = "get", ![w].tx = NoTx,
                                       ![w].attempt = @ + 1]
                       /\ UNCHANGED resp
                  ELSE Reply(w, "errConcurrent")
               /\ UNCHANGED <<channels, messages, created>>
          ELSE /\ messages' = messages \cup
                    {[parent |-> k, ID |-> Version(k) + 1, GameID |-> writer[w].msg.GameID,
                      ChannelMembers |-> writer[w].msg.ChannelMembers,
                      Sender |-> writer[w].msg.Sender,
                      CreatedAt |-> writer[w].msg.CreatedAt]}
               /\ channels' = [c \in DOMAIN channels \cup {k} |->
                    IF c = k THEN [tx.channel EXCEPT !.NMessages = Increment(@)]
                    ELSE channels[c]]
               /\ created' = [c \in DOMAIN created \cup {k} |->
                    IF c = k THEN (IF k \in DOMAIN created THEN created[k] ELSE 0) + 1
                    ELSE created[c]]
               /\ Reply(w, "ok")
  /\ UNCHANGED <<now, lister, poller>>

Next ==
  \/ Tick
  \/ \E w \in Writers : CreateMessage(w)
  \/ \E w \in Writers : TxGet(w)
  \/ \E w \in Writers : TxCommit(w)

Spec == Init /\ [][Next]_vars

\* ------------------------------------------------------------- read path
\* publicChannel(variant)
PublicChannel == Sort(VariantNations)

\* isPublic(variant, members), its result
IsPublic(members) ==
  LET public == PublicChannel
      m == Sort(members)
  IN  /\ Len(m) = Len(public)
      /\ \A i \in 1..Len(public) : m[i] = public[i]

\* an absent since parameter (a nil *time.Time); <<t>> is the cutoff t
NoSince == <<>>
Sinces == {NoSince} \cup {<<t>> : t \in 0..MaxTime}

\* a cutoff that lets the message created at the cutoff through
AfterOrAt(m, since) == since = NoSince \/ m.CreatedAt >= since[1]

\* Filter("CreatedAt>", since)
After(m, since) == since = NoSince \/ m.CreatedAt > since[1]

\* Order("-CreatedAt") of a query under one ancestor; entities of equal
\* CreatedAt come in key order
RECURSIVE OrderDesc(_)
OrderDesc(S) ==
  IF S = {} THEN <<>>
  ELSE LET first == CHOOSE m \in S : \A o \in S :
                      \/ m.CreatedAt > o.CreatedAt
                      \/ m.CreatedAt = o.CreatedAt /\ m.ID <= o.ID
       IN  <<first>> \o OrderDesc(S \ {first})

\* the channel_members route parameters a request can carry (a route
\* parameter is not empty)
MemberStrings == {String(m) : m \in MemberSeqs} \ {<<>>}

\* listMessages (lines 277-344) as a function of the request and the store.
\* nation = "" when the requester has no Member entity in the game.  isPublic
\* sorts the slice it is given, and it is only reached when the requester's
\* nation is not in the slice.
Listing(gameID, nation, s, since, queryErr) ==
  LET parsed == FromString(s)
      included == Includes(parsed, nation)
      channelMembers == IF included THEN parsed ELSE Sort(parsed)
      channelID == ChannelID(gameID, channelMembers)
  IN  IF ~included /\ ~IsPublic(parsed) THEN [status |-> "403", messages |-> <<>>]
      ELSE IF channelID = NilKey THEN [status |-> "errChannelID", messages |-> <<>>]
      ELSE IF queryErr THEN [status |-> "errQuery", messages |-> <<>>]
      ELSE [status |-> "ok",
            messages |-> OrderDesc({m \in Children(channelID) : After(m, since)})]

\* one listMessages request and its response
ListMessages ==
  \E gameID \in Games, nation \in Roles, s \in MemberStrings,
     since \in Sinces, queryErr \in BOOLEAN :
    LET r == Listing(gameID, nation, s, since, queryErr)
    IN  /\ resp' = [op |-> "listMessages", status |-> r.status, gameID |-> gameID,
                    nation |-> nation, members |-> s, since |-> since,
                    messages |-> r.messages]
        /\ UNCHANGED <<channels, messages, now, writer, created, lister, poller>>

\* no createMessage request is between its validation and its commit
Quiescent == \A w \in Writers : writer[w].pc = "idle"

\* the write path's steps
Writes ==
  \/ Tick
  \/ \E w \in Writers : CreateMessage(w)
  \/ \E w \in Writers : TxGet(w)
  \/ \E w \in Writers : TxCommit(w)

\* Writes, then message listings.  A listing is one consistent ancestor query
\* and changes no entity: it sees the committed entities only, so a listing
\* taken while a transaction is open returns what it returns before that
\* request began, and what follows a listing is what follows the state it was
\* taken in.  Behaviours are followed up to their first listing.
NextMessages ==
  \/ resp.op # "listMessages" /\ Writes
  \/ resp.op # "listMessages" /\ Quiescent /\ ListMessages

SpecMessages == Init /\ [][NextMessages]_vars

\* ----------------------------------------------------------------- polling
\* the cutoff a client takes from a listing: the CreatedAt of its newest
\* message, which Order("-CreatedAt") puts first
Newest(list) == IF list = <<>> THEN NoSince ELSE <<list[1].CreatedAt>>

\* A client lists a channel's messages without a cutoff (lines 277-344) and
\* keeps what it got.  The client polls a channel it has messages of; a
\* listing that fails gives it nothing and it asks again.
PollFirst ==
  /\ poller.pc = "idle"
  /\ \E gameID \in Games, nation \in Roles, s \in MemberStrings, queryErr \in BOOLEAN :
       LET r == Listing(gameID, nation, s, NoSince, queryErr)
       IN  /\ r.status = "ok"
           /\ r.messages # <<>>
           /\ poller' = [pc |-> "first", gameID |-> gameID, nation |-> nation,
                         members |-> s, first |-> r.messages, second |-> <<>>]
  /\ UNCHANGED <<channels, messages, now, writer, created, resp, lister>>

\* the client lists the same channel with since = the newest CreatedAt it has
PollSecond ==
  /\ poller.pc = "first"
  /\ \E queryErr \in BOOLEAN :
       LET r == Listing(poller.gameID, poller.nation, poller.members,
                        Newest(poller.first), queryErr)
       IN  /\ r.status = "ok"
           /\ poller' = [poller EXCEPT !.pc = "second", !.second = r.messages]
  /\ UNCHANGED <<channels, messages, now, writer, created, resp, lister>>

\* createMessage requests run before, between and across the two listings
NextPoll ==
  \/ poller.pc # "second" /\ Writes
  \/ PollFirst
  \/ PollSecond

SpecPoll == Init /\ [][NextPoll]_vars

\* ------------------------------------------------------- channel listing
\* the entities a query returns, in the store's order
RECURSIVE SetToSeq(_)
SetToSeq(S) ==
  IF S = {} THEN <<>>
  ELSE LET x == CHOOSE x \in S : TRUE IN <<x>> \o SetToSeq(S \ {x})

\* a Channel entity loaded into a Channel struct
Loaded(k) ==
  [GameID |-> channels[k].GameID, Members |-> channels[k].Members,
   NMessages |-> channels[k].NMessages, NMessagesSince |-> ZeroSince]

\* a listing whose query leaves the GameID filter out
VisibleInAnyGame(gameID, nation) ==
  IF nation = ""
  THEN LET k == ChannelID(gameID, PublicChannel)
       IN  IF k \in DOMAIN channels THEN <<Loaded(k)>> ELSE <<>>
  ELSE LET keys == SetToSeq({k \in DOMAIN channels : Includes(channels[k].Members, nation)})
       IN  [i \in 1..Len(keys) |-> Loaded(keys[i])]

\* lines 389-406: the public channel for a requester without a nation, else
\* the query Filter("GameID=", gameID).Filter("Members=", nation)
Visible(gameID, nation) ==
  IF nation = ""
  THEN LET k == ChannelID(gameID, PublicChannel)
       IN  IF k \in DOMAIN channels THEN <<Loaded(k)>> ELSE <<>>
  ELSE LET hits == {k \in DOMAIN channels :
                      /\ channels[k].GameID = gameID
                      /\ Includes(channels[k].Members, nation)}
           keys == SetToSeq(hits)
       IN  [i \in 1..Len(keys) |-> Loaded(keys[i])]

\* a listing without a cutoff that leaves NMessagesSince at its zero value
WithoutTotals(cs) == cs

\* lines 425-427
WithTotals(cs) ==
  [i \in 1..Len(cs) |->
     [cs[i] EXCEPT !.NMessagesSince = [@ EXCEPT !.NMessages = cs[i].NMessages]]]

\* listChannels up to the fan-out (lines 346-415), and to its end when there
\* is no cutoff or no channel.  nation = "" when the requester has no Member
\* entity in the game.
ListChannels ==
  /\ lister.pc = "idle"
  /\ \E gameID \in Games, nation \in Roles, since \in Sinces,
        storeErr \in BOOLEAN :
       LET found == Visible(gameID, nation)
           request == [IdleLister EXCEPT !.gameID = gameID, !.nation = nation,
                                         !.since = since]
       IN  lister' =
             IF storeErr
             THEN [request EXCEPT !.pc = "done", !.status = "errStore"]
             ELSE IF since = NoSince
             THEN [request EXCEPT !.pc = "done", !.status = "ok",
                                  !.channels = WithTotals(found),
                                  !.content = WithTotals(found)]
             ELSE IF found = <<>>
             THEN [request EXCEPT !.pc = "done", !.status = "ok"]
             ELSE [request EXCEPT !.pc = "fanout", !.channels = found,
                                  !.tasks = [i \in 1..Len(found) |-> "running"],
                                  !.errs = [i \in 1..Len(found) |-> "none"]]
  /\ UNCHANGED <<channels, messages, now, writer, created, resp, poller>>

\* a count query without the ancestor filter
CountSinceAnyChannel(i) ==
  /\ lister.pc = "fanout"
  /\ i \in 1..Len(lister.tasks)
  /\ lister.tasks[i] = "running"
  /\ LET c == lister.channels[i]
         channelID == ChannelID(c.GameID, c.Members)
         count == Cardinality({m \in messages : After(m, lister.since)})
     IN  IF channelID = NilKey
         THEN lister' = [lister EXCEPT !.tasks[i] = "sending", !.errs[i] = "errChannelID"]
         ELSE \E countErr \in BOOLEAN :
                IF countErr
                THEN lister' = [lister EXCEPT !.tasks[i] = "sending", !.errs[i] = "errCount"]
                ELSE lister' = [lister EXCEPT !.tasks[i] = "sending", !.errs[i] = "nil",
                         !.channels[i].NMessagesSince =
                            [Since |-> lister.since, NMessages |-> count]]
  /\ UNCHANGED <<channels, messages, now, writer, created, resp, poller>>

\* One task of the fan-out (lines 411-413) up to its send: Channel.CountSince
\* (lines 127-139) on its own element of the slice.
CountSince(i) ==
  /\ lister.pc = "fanout"
  /\ i \in 1..Len(lister.tasks)
  /\ lister.tasks[i] = "running"
  /\ LET c == lister.channels[i]
         channelID == ChannelID(c.GameID, c.Members)
         count == Cardinality({m \in Children(channelID) : After(m, lister.since)})
     IN  IF channelID = NilKey
         THEN lister' = [lister EXCEPT !.tasks[i] = "sending", !.errs[i] = "errChannelID"]
         ELSE \E countErr \in BOOLEAN :
                IF countErr
                THEN lister' = [lister EXCEPT !.tasks[i] = "sending", !.errs[i] = "errCount"]
                ELSE lister' = [lister EXCEPT !.tasks[i] = "sending", !.errs[i] = "nil",
                         !.channels[i].NMessagesSince =
                            [Since |-> lister.since, NMessages |-> count]]
  /\ UNCHANGED <<channels, messages, now, writer, created, resp, poller>>

\* a receive loop that keeps the first error only
CollectFirst(merr, err) == IF err # "nil" /\ merr = <<>> THEN <<err>> ELSE merr

\* lines 416-420, one iteration: the parent receives what task i sends on the
\* unbuffered channel
Collect(merr, err) == IF err # "nil" THEN Append(merr, err) ELSE merr

\* the tasks whose result the parent has received
Received(tasks) == {i \in 1..Len(tasks) : tasks[i] = "done"}

\* a receive loop that returns at the first error it receives
ReceiveUntilError(i) ==
  /\ lister.pc = "fanout"
  /\ i \in 1..Len(lister.tasks)
  /\ lister.tasks[i] = "sending"
  /\ LET merr == Collect(lister.merr, lister.errs[i])
         tasks == [lister.tasks EXCEPT ![i] = "done"]
     IN  lister' =
           IF Len(merr) > 0
           THEN [lister EXCEPT !.tasks = tasks, !.merr = merr, !.pc = "done",
                               !.status = "errMulti"]
           ELSE IF Cardinality(Received(tasks)) < Len(lister.channels)
           THEN [lister EXCEPT !.tasks = tasks, !.merr = merr]
           ELSE [lister EXCEPT !.tasks = tasks, !.merr = merr, !.pc = "done",
                               !.status = "ok", !.content = lister.channels]
  /\ UNCHANGED <<channels, messages, now, writer, created, resp, poller>>

\* The parent's receive loop (lines 416-423) and the end of the handler
\* (lines 430-431): the send of task i and the receive are one rendezvous.
Receive(i) ==
  /\ lister.pc = "fanout"
  /\ i \in 1..Len(lister.tasks)
  /\ lister.tasks[i] = "sending"
  /\ LET merr == Collect(lister.merr, lister.errs[i])
         tasks == [lister.tasks EXCEPT ![i] = "done"]
     IN  lister' =
           IF Cardinality(Received(tasks)) < Len(lister.channels)
           THEN [lister EXCEPT !.tasks = tasks, !.merr = merr]
           ELSE IF Len(merr) > 0
           THEN [lister EXCEPT !.tasks = tasks, !.merr = merr, !.pc = "done",
                               !.status = "errMulti"]
           ELSE [lister EXCEPT !.tasks = tasks, !.merr = merr, !.pc = "done",
                               !.status = "ok", !.content = lister.channels]
  /\ UNCHANGED <<channels, messages, now, writer, created, resp, poller>>

\* Writes, then one channel listing with its fan-out.  The listing reads
\* committed entities only and changes none.
NextChannels ==
  \/ lister.pc = "idle" /\ Writes
  \/ Quiescent /\ ListChannels
  \/ \E i \in 1..MaxMsgs : CountSince(i)
  \/ \E i \in 1..MaxMsgs : Receive(i)

SpecChannels == Init /\ [][NextChannels]_vars

\* The Go scheduler runs every runnable goroutine, and a store call returns
\* (its context has a deadline): a task that can count does count, and a
\* rendezvous that can happen does happen.
SpecFanOut ==
  /\ SpecChannels
  /\ WF_vars(\E i \in 1..MaxMsgs : CountSince(i))
  /\ WF_vars(\E i \in 1..MaxMsgs : Receive(i))

\* A channel listing whose count queries interleave with the write path: the
\* listing query and the count queries are separate store calls outside any
\* transaction, and createMessage requests run between them.
NextRace ==
  \/ lister.pc # "done" /\ Writes
  \/ Quiescent /\ ListChannels
  \/ \E i \in 1..MaxMsgs : CountSince(i)
  \/ \E i \in 1..MaxMsgs : Receive(i)

SpecRace == Init /\ [][NextRace]_vars

\* ------------------------------------------------------- key derivation
\* ChannelID applied to a game identifier and two member sequences
ChannelIDs ==
  /\ \E gameID \in Games \cup {0}, m1 \in MemberSeqs, m2 \in MemberSeqs :
       resp' = [op |-> "ChannelID", gameID |-> gameID, m1 |-> m1, m2 |-> m2,
                k1 |-> ChannelID(gameID, m1), k2 |-> ChannelID(gameID, m2)]
  /\ UNCHANGED <<channels, messages, now, writer, created, lister, poller>>

NextKey == ChannelIDs

SpecKey == Init /\ [][NextKey]_vars

\* ------------------------------------------------------------ the claims
\* C1: after N successful createMessage calls on one channel, in any
\* interleaving, the channel's persisted NMessages is N and N Message records
\* exist under the channel.
C1_CounterEqualsSuccessfulCalls ==
  \A k \in DOMAIN created :
    /\ k \in DOMAIN channels
    /\ channels[k].NMessages = created[k]
    /\ Cardinality(Children(k)) = created[k]

\* C2: in every committed state of the store, every Channel record's NMessages
\* is the number of Message records stored as children of the channel.
C2_CounterEqualsRecords ==
  \A k \in DOMAIN channels : channels[k].NMessages = Cardinality(Children(k))

\* C3: a store failure of a step inside the write transaction (the Get of the
\* Channel, the Put of the Message, the Put of the Channel) aborts the unit:
\* createMessage returns an error and no Channel or Message record differs.
C3_FailureAbortsUnit ==
  [][\A w \in Writers :
       (/\ writer[w].pc = "commit"
        /\ writer'[w].pc = "idle"
        /\ writer[w].tx.getErr \/ resp'.status = "errTx")
       => /\ resp'.op = "createMessage"
          /\ resp'.status \in {"errTx", "errConcurrent"}
          /\ channels' = channels
          /\ messages' = messages]_vars

\* C4: for every game identifier G and member sequences M1, M2 of length at
\* least 2 that are permutations of each other, ChannelID(G, M1) and
\* ChannelID(G, M2) return the same key.
C4_PermutationsSameKey ==
  (/\ resp.op = "ChannelID"
   /\ Len(resp.m1) >= 2
   /\ Sort(resp.m1) = Sort(resp.m2))
  => resp.k1 = resp.k2

\* C5: listMessages returns messages only when the requester's role is in
\* the requested member set or the requested set is the full roster; every
\* other request (every observer asking for a non-public set included) is
\* Forbidden and returns no message; anyone can read the public channel.
C5_ForbiddenUnlessMemberOrPublic ==
  resp.op = "listMessages" =>
    LET requested == SeqToSet(FromString(resp.members))
        isMember == resp.nation # "" /\ resp.nation \in requested
        public == Sort(FromString(resp.members)) = Sort(VariantNations)
    IN  /\ (isMember \/ public) => resp.status # "403"
        /\ ~(isMember \/ public) => (resp.status = "403" /\ resp.messages = <<>>)

\* the createMessage responses of a destination that fails validation
Rejections == {"403", "400", "errChannelID"}

\* C6: a createMessage call rejected by validation (sender not in the
\* destination, a destination member not in the roster, fewer than two
\* members) creates no Message, creates no Channel and changes no counter.
C6_RejectedBeforeMutation ==
  [][(/\ writer' = writer
      /\ resp'.op = "createMessage"
      /\ resp'.status \in Rejections)
     => (channels' = channels /\ messages' = messages)]_vars

\* a destination was rejected while channels with messages exist
C6_Witness ==
  /\ resp.op = "createMessage"
  /\ resp.status = "400"
  /\ messages # {}
  /\ DOMAIN channels # {}

C8_ObserverGetsPublicOnly ==
  (lister.pc = "done" /\ lister.nation = "" /\ lister.status # "errStore") =>
    /\ Len(lister.content) <= 1
    /\ \A i \in 1..Len(lister.content) : lister.content[i].Members = Sort(VariantNations)
    /\ ChannelID(lister.gameID, Sort(VariantNations)) \notin DOMAIN channels
         => (lister.status = "ok" /\ lister.content = <<>>)

\* C9: for a requester with role R in game G, listChannels returns every
\* existing channel of game G whose member set includes R, and no channel of
\* another game or without R.
C9_RoleGetsItsChannels ==
  (lister.pc = "done" /\ lister.nation # "" /\ lister.status = "ok") =>
    LET mine == {k \in DOMAIN channels :
                   /\ channels[k].GameID = lister.gameID
                   /\ lister.nation \in SeqToSet(channels[k].Members)}
        got == lister.content
    IN  /\ Len(got) = Cardinality(mine)
        /\ {<<got[i].GameID, got[i].Members>> : i \in 1..Len(got)}
             = {<<channels[k].GameID, channels[k].Members>> : k \in mine}

\* a role's listing returns a channel while a channel of another game exists
C9_Witness ==
  /\ lister.pc = "done"
  /\ lister.status = "ok"
  /\ lister.nation = "England"
  /\ Len(lister.content) = 1
  /\ \E k \in DOMAIN channels : channels[k].GameID \notin {0, lister.gameID}

\* the number of e in the sequence s
Count(s, e) == Cardinality({i \in 1..Len(s) : s[i] = e})

\* C10: with a cutoff the fan-out is a join barrier: the parent has the
\* result of every task before it returns, a failed task cancels no sibling,
\* k >= 1 failed tasks fail the listing with exactly those k errors and no
\* channel list, and the listing succeeds only if every task succeeded.
C10_JoinBarrier ==
  (lister.pc = "done" /\ lister.since # NoSince /\ Len(lister.channels) > 0) =>
    LET failed == {i \in 1..Len(lister.errs) : lister.errs[i] # "nil"}
    IN  /\ \A i \in 1..Len(lister.tasks) :
             lister.tasks[i] = "done" /\ lister.errs[i] # "none"
        /\ Len(lister.merr) = Cardinality(failed)
        /\ \A e \in {"errChannelID", "errCount"} :
             Count(lister.merr, e) = Count(lister.errs, e)
        /\ failed # {} => (lister.status = "errMulti" /\ lister.content = <<>>)
        /\ failed = {} => (lister.status = "ok" /\ lister.content = lister.channels)

\* a fan-out over two channels with one failed and one successful count
C10_Witness ==
  /\ lister.pc = "done"
  /\ Len(lister.channels) = 2
  /\ Len(lister.merr) = 1
  /\ lister.status = "errMulti"
  /\ \E i \in 1..2 : lister.errs[i] = "nil"

\* C11: in a successful listChannels with cutoff T every returned channel has
\* NMessagesSince.Since = T and NMessagesSince.NMessages = the number of the
\* channel's messages with CreatedAt > T when its count query ran; without a
\* cutoff NMessagesSince.NMessages is the persisted NMessages the listing read.
C11_CountsSince ==
  (lister.pc = "done" /\ lister.status = "ok") =>
    \A i \in 1..Len(lister.content) :
      LET c == lister.content[i]
          owned == {m \in messages : m.GameID = c.GameID /\ m.ChannelMembers = c.Members}
      IN  IF lister.since = NoSince
          THEN /\ c.NMessagesSince.NMessages = c.NMessages
               /\ \E k \in DOMAIN channels :
                    channels[k] = [GameID |-> c.GameID, Members |-> c.Members,
                                   NMessages |-> c.NMessages]
          ELSE /\ c.NMessagesSince.Since = lister.since
               /\ c.NMessagesSince.NMessages =
                    Cardinality({m \in owned : m.CreatedAt > lister.since[1]})

\* a listing with cutoff 0 returns a channel of two messages, one of them newer
C11_Witness ==
  /\ lister.pc = "done"
  /\ lister.status = "ok"
  /\ lister.since = <<0>>
  /\ \E i \in 1..Len(lister.content) :
       /\ lister.content[i].NMessages = 2
       /\ lister.content[i].NMessagesSince.NMessages = 1

\* C12: channels are materialised by the write path only.  The first
\* successful createMessage to a member set not seen before in game G creates
\* the Channel record under the key of G and the sorted, comma-joined members,
\* with that member set and NMessages = 1; no step of a read operation creates
\* or changes a Channel or Message record.
C12_LazyCreation ==
  [][/\ \A k \in DOMAIN channels' \ DOMAIN channels :
          \E w \in Writers :
            LET m == writer[w].msg
            IN  /\ writer[w].pc = "commit"
                /\ writer'[w].pc = "idle"
                /\ resp'.status = "ok"
                /\ k = <<IntStr(m.GameID), ":">> \o String(Sort(m.ChannelMembers))
                /\ channels'[k] = [GameID |-> m.GameID, Members |-> Sort(m.ChannelMembers),
                                   NMessages |-> 1]
     /\ lister' # lister => (channels' = channels /\ messages' = messages)]_vars

\* C13: once a Channel record exists it is never deleted, its GameID and
\* Members never change, and its NMessages never decreases, under any sequence
\* of createMessage calls and reads.
C13_ChannelRecordStable ==
  [][\A k \in DOMAIN channels :
       /\ k \in DOMAIN channels'
       /\ channels'[k].GameID = channels[k].GameID
       /\ channels'[k].Members = channels[k].Members
       /\ channels'[k].NMessages >= channels[k].NMessages]_vars

\* C14: a createMessage on channel A leaves the Channel record and the
\* Message records of every other channel B unchanged, and writers to
\* different channels do not contend: a transaction on A is retried or aborted
\* for a conflict only when a transaction on A itself committed after its Get.
C14_ChannelsIndependent ==
  [][\A w \in Writers :
       LET k == writer[w].key
       IN  (writer[w].pc = "commit" /\ writer'[w] # writer[w]) =>
             /\ DOMAIN channels' \subseteq DOMAIN channels \cup {k}
             /\ \A c \in DOMAIN channels \ {k} :
                  c \in DOMAIN channels' /\ channels'[c] = channels[c]
             /\ {m \in messages' : m.parent # k} = {m \in messages : m.parent # k}
             /\ (writer'[w].pc = "get" \/ resp'.status = "errConcurrent")
                  => Cardinality({m \in messages : m.parent = k}) > writer[w].tx.seen]_vars

\* two transactions are open at once on different channels of one game
C14_Witness ==
  /\ writer[1].pc = "commit"
  /\ writer[2].pc = "commit"
  /\ writer[1].key # writer[2].key
  /\ writer[1].msg.GameID = writer[2].msg.GameID

\* C15: for every persisted Message, Sender is an element of ChannelMembers,
\* every element of ChannelMembers is a nation of the game's roster, and the
\* message is stored as a child of ChannelID(GameID, ChannelMembers).
C15_MessageWellFormed ==
  \A m \in messages :
    /\ m.Sender \in SeqToSet(m.ChannelMembers)
    /\ SeqToSet(m.ChannelMembers) \subseteq SeqToSet(VariantNations)
    /\ m.parent # NilKey
    /\ m.parent = ChannelID(m.GameID, m.ChannelMembers)

\* two messages are stored, under the keys of two different channels
C15_Witness ==
  \E m1, m2 \in messages : m1.parent # m2.parent /\ m1.Sender # m2.Sender

\* C16: every persisted Channel record's Members is a participant set (no
\* participant repeated) of size at least 2, stored sorted, for every
\* destination accepted by createMessage: read on the records whose Members is
\* the destination of a message stored under them.
C16_MembersIsSortedSet ==
  \A k \in DOMAIN channels :
    LET members == channels[k].Members
    IN  (\E m \in Children(k) : m.ChannelMembers = members) =>
          /\ Len(members) >= 2
          /\ members = Sort(members)
          /\ Cardinality(SeqToSet(members)) = Len(members)

\* C17: for an authorized requester, listMessages called with any permutation
\* of a channel's members returns the same messages as when called with the
\* sorted member sequence.
C17_PermutationSameListing ==
  (/\ resp.op = "listMessages"
   /\ resp.status = "ok"
   /\ \E m \in messages : /\ m.GameID = resp.gameID
                          /\ m.ChannelMembers = Sort(FromString(resp.members)))
  => resp.messages =
       Listing(resp.gameID, resp.nation, String(Sort(FromString(resp.members))),
               resp.since, FALSE).messages

\* C18: the fan-out always completes and is race-free: each task sends
\* exactly one result and the parent receives exactly one per channel, no task
\* is left blocked on the unbuffered channel when the parent returns, and each
\* task writes only the NMessagesSince of its own element of the slice.
C18_FanOutCompletes ==
  /\ [](lister.pc = "done" => \A i \in 1..Len(lister.tasks) : lister.tasks[i] = "done")
  /\ [][lister.pc = "fanout" =>
          /\ Len(lister'.tasks) = Len(lister.tasks)
          /\ Len(lister'.channels) = Len(lister.channels)
          /\ \A i \in 1..Len(lister.tasks) :
               /\ lister'.tasks[i] # lister.tasks[i] =>
                    \/ lister.tasks[i] = "running" /\ lister'.tasks[i] = "sending"
                    \/ lister.tasks[i] = "sending" /\ lister'.tasks[i] = "done"
               /\ lister'.channels[i] # lister.channels[i] =>
                    /\ lister.tasks[i] = "running"
                    /\ lister'.tasks[i] = "sending"
                    /\ lister'.channels[i] =
                         [lister.channels[i] EXCEPT
                            !.NMessagesSince = lister'.channels[i].NMessagesSince]]_vars
  /\ (lister.pc = "fanout") ~> (lister.pc = "done")

\* a fan-out over two channels has returned their counts
C18_Witness ==
  /\ lister.pc = "done"
  /\ lister.status = "ok"
  /\ Len(lister.tasks) = 2
  /\ \A i \in 1..2 : lister.content[i].NMessagesSince.Since = lister.since

\* C19: in a successful listChannels with a cutoff, every returned channel's
\* NMessagesSince.NMessages is at most the NMessages of the same channel in the
\* same result, also when createMessage calls commit between the listing query
\* and the count query.
C19_SinceAtMostTotal ==
  (lister.pc = "done" /\ lister.status = "ok" /\ lister.since # NoSince) =>
    \A i \in 1..Len(lister.content) :
      lister.content[i].NMessagesSince.NMessages <= lister.content[i].NMessages


\* C19, amended: in a successful listChannels with a cutoff, every returned
\* channel's NMessagesSince.NMessages is at most the number of Message records
\* stored under that channel when the listing returns; it can exceed the
\* NMessages of the same result, which the earlier listing query read.
C19_SinceAtMostStored ==
  (lister.pc = "done" /\ lister.status = "ok" /\ lister.since # NoSince) =>
    \A i \in 1..Len(lister.content) :
      LET c == lister.content[i]
      IN  c.NMessagesSince.NMessages <=
            Cardinality({m \in messages : m.parent = ChannelID(c.GameID, c.Members)})

\* a listing returns a count since the cutoff above the total it returns for
\* the same channel: a message was committed between its two queries
C19_Witness ==
  /\ lister.pc = "done"
  /\ lister.status = "ok"
  /\ lister.since # NoSince
  /\ \E i \in 1..Len(lister.content) :
       /\ lister.content[i].NMessagesSince.NMessages = 2
       /\ lister.content[i].NMessages = 1


\* C20: polling with the since cutoff loses no message: when a reader lists a
\* channel and lists it again with the cutoff set to the greatest CreatedAt of
\* the first listing, every message committed to the channel before the second
\* listing is in the first or the second result, also when createMessage
\* assigns CreatedAt before its transaction commits.  The channel is addressed
\* by its sorted member sequence.
C20_PollingLosesNothing ==
  (/\ poller.pc = "second"
   /\ FromString(poller.members) = Sort(FromString(poller.members)))
  => \A m \in messages :
       (m.GameID = poller.gameID /\ m.ChannelMembers = FromString(poller.members))
       => \/ \E i \in 1..Len(poller.first) : poller.first[i] = m
          \/ \E i \in 1..Len(poller.second) : poller.second[i] = m

=============================================================================
